---- MODULE Spec2Model ----
(***************************************************************************)
(* Model of the AsyncJson worker pool (AsyncJson.ts): the task queue, the  *)
(* worker registry, dispatch, the message / error / exit handlers, the     *)
(* per-task deadline timer and close().  Worker threads follow WORKER_CODE *)
(* and the worker_threads event protocol: messages and an error event of a *)
(* worker are delivered before its exit event, and exit is emitted once.   *)
(***************************************************************************)
EXTENDS Integers, Sequences, FiniteSets, TLC

\* ------------------------------------------------------------------ bounds
MaxThreads == 2   \* numThreads ranges over 1..MaxThreads
MaxTasks   == 3   \* number of submissions (runTask calls)
MaxFailures == 1  \* tasks that fail: error response, crash, hang, uncaught
                  \* exception, or a deadline that elapses early
MaxLiveTasks == 2 \* number of submissions under FairSpec

\* Every failure can lead to at most two spawns: one by the deadline and
\* one by the fault of the worker.  SurplusSpec starts after one such
\* failure.
MaxUnits == MaxThreads + 2 * MaxFailures + 2

Units   == 1..MaxUnits
TaskIds == 1..MaxTasks
NoTask  == 0

\* What WORKER_CODE does with a task, decided by its (type, payload):
\*   "ok"       parse / stringify that succeeds      -> {status: 'ok'}
\*   "error"    parse / stringify that throws, or __TEST_ERROR__
\*                                                    -> {status: 'error'}
\*   "crash"    __TEST_CRASH__                        -> process.exit(1)
\*   "hang"     __TEST_HANG__                         -> no response
\*   "uncaught" __TEST_UNCAUGHT_ERROR__               -> uncaught exception
\* The pool never looks at the type or the payload of a task, so the model
\* draws them when the worker acts on the task, not when it is submitted.
Status   == {"ok", "error"}
FailType == {"crash", "hang", "uncaught"}

VARIABLES
  numThreads,       \* AsyncJson.numThreads
  taskTimeoutMs,    \* TRUE iff options.taskTimeoutMs is not undefined
  workers,          \* AsyncJson.workers       (array of units)
  idleWorkers,      \* AsyncJson.idleWorkers   (array of units)
  taskQueue,        \* AsyncJson.taskQueue     (array of task ids)
  workerTaskMap,    \* AsyncJson.workerTaskMap (unit -> task id, NoTask = no entry)
  isClosing,        \* AsyncJson.isClosing
  timedOutWorkers,  \* AsyncJson.timedOutWorkers
  erroredWorkers,   \* AsyncJson.erroredWorkers
  timers,           \* pending setTimeout callbacks, <<unit, task>> of the closure
  nextTask,         \* id of the next submission
  nextUnit,         \* id of the next Worker object
  thread,           \* unit -> "unborn" | "running" | "stopped" | "exited"
  exitCode,         \* unit -> code its exit event carries
  inbox,            \* unit -> id of the task posted to the worker and not yet acted on
  errPending,       \* units whose 'error' event is not yet delivered
  failures,         \* number of failures so far
  closeWait,        \* for the close() calls: the sets of units whose exit is awaited
  results,          \* task id -> sequence of settlements of its result handle
  sent,             \* task ids in the order dispatch posted them
  spawnedBy         \* <<unit, handler>> for every spawn: whose handler called it

vars == <<numThreads, taskTimeoutMs, workers, idleWorkers, taskQueue,
          workerTaskMap, isClosing, timedOutWorkers, erroredWorkers, timers,
          nextTask, nextUnit, thread, exitCode, inbox,
          errPending, failures, closeWait, results, sent, spawnedBy>>

\* ------------------------------------------------------------- sequences
Range(s) == {s[i] : i \in 1..Len(s)}

\* Array.prototype.filter((w) => w !== worker)
Without(s, w) == SelectSeq(s, LAMBDA x : x # w)

\* the states of one pool, as a record the handlers transform
Cur(by) ==
  [numThreads |-> numThreads, taskTimeoutMs |-> taskTimeoutMs,
   workers |-> workers, idleWorkers |-> idleWorkers, taskQueue |-> taskQueue,
   workerTaskMap |-> workerTaskMap, isClosing |-> isClosing,
   timedOutWorkers |-> timedOutWorkers, erroredWorkers |-> erroredWorkers,
   timers |-> timers, nextUnit |-> nextUnit, thread |-> thread,
   exitCode |-> exitCode, inbox |-> inbox, results |-> results,
   sent |-> sent, spawnedBy |-> spawnedBy, by |-> by]

Commit(s) ==
  /\ workers' = s.workers
  /\ idleWorkers' = s.idleWorkers
  /\ taskQueue' = s.taskQueue
  /\ workerTaskMap' = s.workerTaskMap
  /\ isClosing' = s.isClosing
  /\ timedOutWorkers' = s.timedOutWorkers
  /\ erroredWorkers' = s.erroredWorkers
  /\ timers' = s.timers
  /\ nextUnit' = s.nextUnit
  /\ thread' = s.thread
  /\ exitCode' = s.exitCode
  /\ inbox' = s.inbox
  /\ results' = s.results
  /\ sent' = s.sent
  /\ spawnedBy' = s.spawnedBy
  /\ UNCHANGED <<numThreads, taskTimeoutMs>>

\* ------------------------------------------------------------ primitives
\* resolve(...) / reject(...) of task t
settle(s, t, how) == [s EXCEPT !.results[t] = Append(@, how)]

\* clearTimeout(handlers.timeoutId) of the assignment of w
clearTimeout(s, w) ==
  [s EXCEPT !.timers = {tm \in @ : tm # <<w, s.workerTaskMap[w]>>}]

\* worker.terminate(): stops the thread; its exit event carries code 1.  A
\* response the worker posted before it stopped may still be delivered.
terminate(s, w) ==
  IF s.thread[w] = "running"
  THEN [s EXCEPT !.thread[w] = "stopped", !.exitCode[w] = 1]
  ELSE s

\* ---------------------------------------------------------------- dispatch
\* dispatch that starts the deadline timer even when taskTimeoutMs is
\* undefined
dispatch_alwaysTimer(s) ==
  IF s.isClosing \/ Len(s.taskQueue) = 0 \/ Len(s.idleWorkers) = 0
  THEN s
  ELSE LET t == Head(s.taskQueue)
           w == Head(s.idleWorkers)
       IN [s EXCEPT !.taskQueue = Tail(@),
                    !.idleWorkers = Tail(@),
                    !.timers = @ \cup {<<w, t>>},
                    !.workerTaskMap[w] = t,
                    !.inbox[w] = t,
                    !.sent = Append(@, t)]

\* dispatch without the isClosing guard
dispatch_noClosingCheck(s) ==
  IF Len(s.taskQueue) = 0 \/ Len(s.idleWorkers) = 0
  THEN s
  ELSE LET t == Head(s.taskQueue)
           w == Head(s.idleWorkers)
       IN [s EXCEPT !.taskQueue = Tail(@),
                    !.idleWorkers = Tail(@),
                    !.timers = IF s.taskTimeoutMs THEN @ \cup {<<w, t>>} ELSE @,
                    !.workerTaskMap[w] = t,
                    !.inbox[w] = t,
                    !.sent = Append(@, t)]

\* dispatch that reads idleWorkers[0] without shifting it
dispatch_keepsIdle(s) ==
  IF s.isClosing \/ Len(s.taskQueue) = 0 \/ Len(s.idleWorkers) = 0
  THEN s
  ELSE LET t == Head(s.taskQueue)
           w == Head(s.idleWorkers)
       IN [s EXCEPT !.taskQueue = Tail(@),
                    !.timers = IF s.taskTimeoutMs THEN @ \cup {<<w, t>>} ELSE @,
                    !.workerTaskMap[w] = t,
                    !.inbox[w] = t,
                    !.sent = Append(@, t)]

\* dispatch that never starts the deadline timer
dispatch_noTimer(s) ==
  IF s.isClosing \/ Len(s.taskQueue) = 0 \/ Len(s.idleWorkers) = 0
  THEN s
  ELSE LET t == Head(s.taskQueue)
           w == Head(s.idleWorkers)
       IN [s EXCEPT !.taskQueue = Tail(@),
                    !.idleWorkers = Tail(@),
                    !.workerTaskMap[w] = t,
                    !.inbox[w] = t,
                    !.sent = Append(@, t)]

\* dispatch that takes the task from the back of the queue (pop for shift)
dispatch_lifo(s) ==
  IF s.isClosing \/ Len(s.taskQueue) = 0 \/ Len(s.idleWorkers) = 0
  THEN s
  ELSE LET t == s.taskQueue[Len(s.taskQueue)]
           w == Head(s.idleWorkers)
       IN [s EXCEPT !.taskQueue = SubSeq(@, 1, Len(@) - 1),
                    !.idleWorkers = Tail(@),
                    !.timers = IF s.taskTimeoutMs THEN @ \cup {<<w, t>>} ELSE @,
                    !.workerTaskMap[w] = t,
                    !.inbox[w] = t,
                    !.sent = Append(@, t)]

dispatch(s) ==
  IF s.isClosing \/ Len(s.taskQueue) = 0 \/ Len(s.idleWorkers) = 0
  THEN s
  ELSE LET t == Head(s.taskQueue)
           w == Head(s.idleWorkers)
       IN [s EXCEPT !.taskQueue = Tail(@),
                    !.idleWorkers = Tail(@),
                    !.timers = IF s.taskTimeoutMs THEN @ \cup {<<w, t>>} ELSE @,
                    !.workerTaskMap[w] = t,
                    !.inbox[w] = t,
                    !.sent = Append(@, t)]

\* ---------------------------------------------------------------- registry
\* removeWorker that filters the workers array only
removeWorker_keepsIdle(s, w) ==
  [s EXCEPT !.workers = Without(@, w)]

removeWorker(s, w) ==
  [s EXCEPT !.workers = Without(@, w), !.idleWorkers = Without(@, w)]

\* spawnWorker that does not call dispatch
spawnWorker_noDispatch(s) ==
  IF s.isClosing
  THEN s
  ELSE LET w == s.nextUnit
       IN [s EXCEPT !.nextUnit = w + 1,
                    !.thread[w] = "running",
                    !.workers = Append(@, w),
                    !.idleWorkers = Append(@, w),
                    !.spawnedBy = @ \cup {<<s.by[1], s.by[2]>>}]

\* spawnWorker without the isClosing guard
spawnWorker_noClosingCheck(s) ==
  LET w == s.nextUnit
  IN dispatch([s EXCEPT !.nextUnit = w + 1,
                        !.thread[w] = "running",
                        !.workers = Append(@, w),
                        !.idleWorkers = Append(@, w),
                        !.spawnedBy = @ \cup {<<s.by[1], s.by[2]>>}])

spawnWorker(s) ==
  IF s.isClosing
  THEN s
  ELSE LET w == s.nextUnit
       IN dispatch([s EXCEPT !.nextUnit = w + 1,
                             !.thread[w] = "running",
                             !.workers = Append(@, w),
                             !.idleWorkers = Append(@, w),
                             !.spawnedBy = @ \cup {<<s.by[1], s.by[2]>>}])

\* replaceWorker that creates the new worker even when the pool is closing
replaceWorker_whenClosing(s, w) ==
  spawnWorker_noClosingCheck(removeWorker(s, w))

replaceWorker(s, w) == spawnWorker(removeWorker(s, w))

RECURSIVE initWorkers(_, _)
initWorkers(s, n) == IF n = 0 THEN s ELSE initWorkers(spawnWorker(s), n - 1)

\* ---------------------------------------------------------------- handlers
\* message handler that replaces the worker after an error response
onMessage_replacesOnError(s, w, status) ==
  IF s.workerTaskMap[w] = NoTask
  THEN s
  ELSE LET t  == s.workerTaskMap[w]
           s1 == settle(clearTimeout(s, w), t, status)
           s2 == [s1 EXCEPT !.workerTaskMap[w] = NoTask]
       IN IF status = "error"
          THEN replaceWorker(terminate(s2, w), w)
          ELSE dispatch([s2 EXCEPT !.idleWorkers = Append(@, w)])

\* message handler that forgets clearTimeout(timeoutId)
onMessage_keepsTimer(s, w, status) ==
  IF s.workerTaskMap[w] = NoTask
  THEN s
  ELSE LET t  == s.workerTaskMap[w]
           s1 == settle(s, t, status)
       IN dispatch([s1 EXCEPT !.workerTaskMap[w] = NoTask,
                              !.idleWorkers = Append(@, w)])

\* message handler that settles the task of the first busy worker of the
\* registry instead of the task of the worker that answered
onMessage_settlesFirstBusy(s, w, status) ==
  LET busy == SelectSeq(s.workers, LAMBDA x : s.workerTaskMap[x] # NoTask)
  IN IF busy = <<>>
     THEN s
     ELSE LET b  == Head(busy)
              t  == s.workerTaskMap[b]
              s1 == settle(clearTimeout(s, b), t, status)
          IN dispatch([s1 EXCEPT !.workerTaskMap[b] = NoTask,
                                 !.idleWorkers = Append(@, w)])

\* message handler that returns the worker to idle even when it has no
\* assignment
onMessage_noAssignedCheck(s, w, status) ==
  IF s.workerTaskMap[w] = NoTask
  THEN dispatch([s EXCEPT !.idleWorkers = Append(@, w)])
  ELSE LET t  == s.workerTaskMap[w]
           s1 == settle(clearTimeout(s, w), t, status)
       IN dispatch([s1 EXCEPT !.workerTaskMap[w] = NoTask,
                              !.idleWorkers = Append(@, w)])

\* message handler that forgets workerTaskMap.delete(worker)
onMessage_keepsAssignment(s, w, status) ==
  IF s.workerTaskMap[w] = NoTask
  THEN s
  ELSE LET t  == s.workerTaskMap[w]
           s1 == settle(clearTimeout(s, w), t, status)
       IN dispatch([s1 EXCEPT !.idleWorkers = Append(@, w)])

\* worker.on("message", ...): status is "ok" or "error"
onMessage(s, w, status) ==
  IF s.workerTaskMap[w] = NoTask
  THEN s
  ELSE LET t  == s.workerTaskMap[w]
           s1 == settle(clearTimeout(s, w), t, status)
       IN dispatch([s1 EXCEPT !.workerTaskMap[w] = NoTask,
                              !.idleWorkers = Append(@, w)])

\* error handler that puts the worker back to idle instead of replacing it
onError_reusesWorker(s, w) ==
  LET s1 == [s EXCEPT !.erroredWorkers = @ \cup {w}]
      s2 == IF s1.workerTaskMap[w] # NoTask
            THEN [settle(clearTimeout(s1, w), s1.workerTaskMap[w], "fault")
                    EXCEPT !.workerTaskMap[w] = NoTask]
            ELSE s1
  IN dispatch([s2 EXCEPT !.idleWorkers = Append(@, w)])

\* error handler that rejects the tasks of all busy workers
onError_rejectsAllInflight(s, w) ==
  LET inflight == {u \in Units : s.workerTaskMap[u] # NoTask}
      rejected == {s.workerTaskMap[u] : u \in inflight}
      s1 == [s EXCEPT
               !.erroredWorkers = @ \cup {w},
               !.results = [t \in TaskIds |->
                              IF t \in rejected THEN Append(@[t], "fault")
                              ELSE @[t]],
               !.workerTaskMap = [u \in Units |-> NoTask]]
  IN replaceWorker(s1, w)

\* error handler that forgets workerTaskMap.delete(worker)
onError_keepsAssignment(s, w) ==
  LET s1 == [s EXCEPT !.erroredWorkers = @ \cup {w}]
      s2 == IF s1.workerTaskMap[w] # NoTask
            THEN settle(clearTimeout(s1, w), s1.workerTaskMap[w], "fault")
            ELSE s1
  IN replaceWorker(s2, w)

\* worker.on("error", ...)
onError(s, w) ==
  LET s1 == [s EXCEPT !.erroredWorkers = @ \cup {w}]
      s2 == IF s1.workerTaskMap[w] # NoTask
            THEN [settle(clearTimeout(s1, w), s1.workerTaskMap[w], "fault")
                    EXCEPT !.workerTaskMap[w] = NoTask]
            ELSE s1
  IN replaceWorker(s2, w)

\* exit handler that does not look at erroredWorkers
onExit_ignoresErrored(s, w, code) ==
  LET timedOut == w \in s.timedOutWorkers
      s1 == [s EXCEPT !.timedOutWorkers = @ \ {w}, !.erroredWorkers = @ \ {w}]
      s2 == IF code # 0 /\ ~s1.isClosing /\ ~timedOut
               /\ s1.workerTaskMap[w] # NoTask
            THEN [settle(clearTimeout(s1, w), s1.workerTaskMap[w], "exit")
                    EXCEPT !.workerTaskMap[w] = NoTask]
            ELSE s1
  IN IF code # 0 /\ ~timedOut
     THEN replaceWorker(s2, w)
     ELSE removeWorker(s2, w)

\* exit handler that does not look at timedOutWorkers
onExit_ignoresTimedOut(s, w, code) ==
  LET errored  == w \in s.erroredWorkers
      s1 == [s EXCEPT !.timedOutWorkers = @ \ {w}, !.erroredWorkers = @ \ {w}]
      s2 == IF code # 0 /\ ~s1.isClosing /\ ~errored
               /\ s1.workerTaskMap[w] # NoTask
            THEN [settle(clearTimeout(s1, w), s1.workerTaskMap[w], "exit")
                    EXCEPT !.workerTaskMap[w] = NoTask]
            ELSE s1
  IN IF code # 0 /\ ~errored
     THEN replaceWorker(s2, w)
     ELSE removeWorker(s2, w)

\* exit handler that replaces the worker whatever the exit code
onExit_ignoresCode(s, w, code) ==
  LET timedOut == w \in s.timedOutWorkers
      errored  == w \in s.erroredWorkers
      s1 == [s EXCEPT !.timedOutWorkers = @ \ {w}, !.erroredWorkers = @ \ {w}]
      s2 == IF ~s1.isClosing /\ ~timedOut /\ ~errored
               /\ s1.workerTaskMap[w] # NoTask
            THEN [settle(clearTimeout(s1, w), s1.workerTaskMap[w], "exit")
                    EXCEPT !.workerTaskMap[w] = NoTask]
            ELSE s1
  IN IF ~timedOut /\ ~errored
     THEN replaceWorker(s2, w)
     ELSE removeWorker(s2, w)

\* exit handler that does not delete the worker from timedOutWorkers and
\* erroredWorkers
onExit_keepsFlags(s, w, code) ==
  LET timedOut == w \in s.timedOutWorkers
      errored  == w \in s.erroredWorkers
      s2 == IF code # 0 /\ ~s.isClosing /\ ~timedOut /\ ~errored
               /\ s.workerTaskMap[w] # NoTask
            THEN [settle(clearTimeout(s, w), s.workerTaskMap[w], "exit")
                    EXCEPT !.workerTaskMap[w] = NoTask]
            ELSE s
  IN IF code # 0 /\ ~timedOut /\ ~errored
     THEN replaceWorker(s2, w)
     ELSE removeWorker(s2, w)

\* worker.on("exit", ...)
onExit(s, w, code) ==
  LET timedOut == w \in s.timedOutWorkers
      errored  == w \in s.erroredWorkers
      s1 == [s EXCEPT !.timedOutWorkers = @ \ {w}, !.erroredWorkers = @ \ {w}]
      s2 == IF code # 0 /\ ~s1.isClosing /\ ~timedOut /\ ~errored
               /\ s1.workerTaskMap[w] # NoTask
            THEN [settle(clearTimeout(s1, w), s1.workerTaskMap[w], "exit")
                    EXCEPT !.workerTaskMap[w] = NoTask]
            ELSE s1
  IN IF code # 0 /\ ~timedOut /\ ~errored
     THEN replaceWorker(s2, w)
     ELSE removeWorker(s2, w)

\* deadline callback without the workerTaskMap.has(worker) guard
onTimeout_noAssignedCheck(s, w, t) ==
  LET s1 == settle([s EXCEPT !.workerTaskMap[w] = NoTask], t, "timeout")
      s2 == [s1 EXCEPT !.timedOutWorkers = @ \cup {w}]
  IN dispatch(replaceWorker(terminate(s2, w), w))

\* the setTimeout callback dispatch creates for worker w and task t
onTimeout(s, w, t) ==
  IF s.workerTaskMap[w] = NoTask
  THEN s
  ELSE LET s1 == settle([s EXCEPT !.workerTaskMap[w] = NoTask], t, "timeout")
           s2 == [s1 EXCEPT !.timedOutWorkers = @ \cup {w}]
       IN dispatch(replaceWorker(terminate(s2, w), w))

\* runTask that enqueues without calling dispatch
runTask_noDispatch(s, t) ==
  IF s.isClosing
  THEN settle(s, t, "closing-submit")
  ELSE [s EXCEPT !.taskQueue = Append(@, t)]

\* runTask without the isClosing guard
runTask_noClosingCheck(s, t) ==
  dispatch([s EXCEPT !.taskQueue = Append(@, t)])

\* runTask(task) for the task with id t
runTask(s, t) ==
  IF s.isClosing
  THEN settle(s, t, "closing-submit")
  ELSE dispatch([s EXCEPT !.taskQueue = Append(@, t)])

\* close(), up to the await
RECURSIVE terminateAll(_, _)
terminateAll(s, ws) ==
  IF ws = <<>> THEN s ELSE terminateAll(terminate(s, Head(ws)), Tail(ws))

\* close that forgets workerTaskMap.delete(worker)
close_keepsAssignments(s) ==
  LET queued   == Range(s.taskQueue)
      inflight == {w \in Units : s.workerTaskMap[w] # NoTask}
      rejected == queued \cup {s.workerTaskMap[w] : w \in inflight}
      s1 == [s EXCEPT
               !.isClosing = TRUE,
               !.taskQueue = <<>>,
               !.timers = {tm \in @ : ~(tm[1] \in inflight
                                        /\ tm[2] = s.workerTaskMap[tm[1]])},
               !.results = [t \in TaskIds |->
                              IF t \in rejected THEN Append(@[t], "closing")
                              ELSE @[t]]]
  IN terminateAll(s1, s1.workers)

\* close that does not terminate the workers
close_noTerminate(s) ==
  LET queued   == Range(s.taskQueue)
      inflight == {w \in Units : s.workerTaskMap[w] # NoTask}
      rejected == queued \cup {s.workerTaskMap[w] : w \in inflight}
  IN [s EXCEPT
        !.isClosing = TRUE,
        !.taskQueue = <<>>,
        !.timers = {tm \in @ : ~(tm[1] \in inflight
                                 /\ tm[2] = s.workerTaskMap[tm[1]])},
        !.results = [t \in TaskIds |->
                       IF t \in rejected THEN Append(@[t], "closing")
                       ELSE @[t]],
        !.workerTaskMap = [w \in Units |-> NoTask]]

\* close that rejects the queued tasks only
close_skipsInflight(s) ==
  LET s1 == [s EXCEPT
               !.isClosing = TRUE,
               !.taskQueue = <<>>,
               !.results = [t \in TaskIds |->
                              IF t \in Range(s.taskQueue)
                              THEN Append(@[t], "closing") ELSE @[t]]]
  IN terminateAll(s1, s1.workers)

close(s) ==
  LET queued   == Range(s.taskQueue)
      inflight == {w \in Units : s.workerTaskMap[w] # NoTask}
      rejected == queued \cup {s.workerTaskMap[w] : w \in inflight}
      s1 == [s EXCEPT
               !.isClosing = TRUE,
               !.taskQueue = <<>>,
               !.timers = {tm \in @ : ~(tm[1] \in inflight
                                        /\ tm[2] = s.workerTaskMap[tm[1]])},
               !.results = [t \in TaskIds |->
                              IF t \in rejected THEN Append(@[t], "closing")
                              ELSE @[t]],
               !.workerTaskMap = [w \in Units |-> NoTask]]
  IN terminateAll(s1, s1.workers)

\* stats()
stats == [workers |-> Len(workers), idle |-> Len(idleWorkers),
          queue |-> Len(taskQueue)]

\* ------------------------------------------------------------------- Init
\* the fields before the constructor body runs
Fresh(n, tmo) ==
  [numThreads |-> n, taskTimeoutMs |-> tmo,
   workers |-> <<>>, idleWorkers |-> <<>>, taskQueue |-> <<>>,
   workerTaskMap |-> [w \in Units |-> NoTask], isClosing |-> FALSE,
   timedOutWorkers |-> {}, erroredWorkers |-> {}, timers |-> {},
   nextUnit |-> 1, thread |-> [w \in Units |-> "unborn"],
   exitCode |-> [w \in Units |-> 0], inbox |-> [w \in Units |-> NoTask],
   results |-> [t \in TaskIds |-> <<>>],
   sent |-> <<>>, spawnedBy |-> {}, by |-> <<0, "init">>]

\* constructor that spawns one worker less
constructor_oneShort(n, tmo) == initWorkers(Fresh(n, tmo), n - 1)

\* new AsyncJson(n, {taskTimeoutMs})
constructor(n, tmo) == initWorkers(Fresh(n, tmo), n)

Init ==
  \E n \in 1..MaxThreads, tmo \in BOOLEAN :
    LET s == constructor(n, tmo)
    IN /\ numThreads = s.numThreads
       /\ taskTimeoutMs = s.taskTimeoutMs
       /\ workers = s.workers
       /\ idleWorkers = s.idleWorkers
       /\ taskQueue = s.taskQueue
       /\ workerTaskMap = s.workerTaskMap
       /\ isClosing = s.isClosing
       /\ timedOutWorkers = s.timedOutWorkers
       /\ erroredWorkers = s.erroredWorkers
       /\ timers = s.timers
       /\ nextTask = 1
       /\ nextUnit = s.nextUnit
       /\ thread = s.thread
       /\ exitCode = s.exitCode
       /\ inbox = s.inbox
       /\ errPending = {}
       /\ failures = 0
       /\ closeWait = {}
       /\ results = s.results
       /\ sent = s.sent
       /\ spawnedBy = s.spawnedBy

\* ---------------------------------------------------------------- actions
\* parse(...) / stringify(...) / the __TEST_..__ submissions
Submit ==
  /\ nextTask <= MaxTasks
  /\ Commit(runTask(Cur(<<0, "submit">>), nextTask))
  /\ nextTask' = nextTask + 1
  /\ UNCHANGED <<errPending, failures, closeWait>>

\* the worker thread reads the posted task and WORKER_CODE fails on it:
\* process.exit(1), no response at all, or an uncaught exception
WorkerRun(w, k) ==
  /\ thread[w] = "running"
  /\ inbox[w] # NoTask
  /\ failures < MaxFailures
  /\ failures' = failures + 1
  /\ inbox' = [inbox EXCEPT ![w] = NoTask]
  /\ thread' = IF k \in {"crash", "uncaught"}
               THEN [thread EXCEPT ![w] = "stopped"] ELSE thread
  /\ exitCode' = IF k \in {"crash", "uncaught"}
                 THEN [exitCode EXCEPT ![w] = 1] ELSE exitCode
  /\ errPending' = IF k = "uncaught" THEN errPending \cup {w} ELSE errPending
  /\ UNCHANGED <<numThreads, taskTimeoutMs, workers, idleWorkers, taskQueue,
                 workerTaskMap, isClosing, timedOutWorkers, erroredWorkers,
                 timers, nextTask, nextUnit, closeWait,
                 results, sent, spawnedBy>>

\* WORKER_CODE answers the posted task with {status} and the "message"
\* listener receives it; the worker may have been stopped by terminate()
\* after it posted the response
OnMessage(w, status) ==
  /\ inbox[w] # NoTask
  /\ thread[w] \in {"running", "stopped"}
  /\ Commit(onMessage([Cur(<<w, "message">>) EXCEPT !.inbox[w] = NoTask],
                      w, status))
  /\ status = "error" => failures < MaxFailures
  /\ failures' = IF status = "error" THEN failures + 1 ELSE failures
  /\ UNCHANGED <<nextTask, errPending, closeWait>>

\* delivery of the "error" event
OnError(w) ==
  /\ w \in errPending
  /\ Commit(onError(Cur(<<w, "error">>), w))
  /\ errPending' = errPending \ {w}
  /\ UNCHANGED <<nextTask, failures, closeWait>>

\* delivery of the "exit" event, after the worker's ports are drained
OnExit(w) ==
  /\ thread[w] = "stopped"
  /\ w \notin errPending
  /\ Commit([onExit(Cur(<<w, "exit">>), w, exitCode[w])
               EXCEPT !.thread[w] = "exited", !.inbox[w] = NoTask])
  /\ closeWait' = {W \ {w} : W \in closeWait}
  /\ UNCHANGED <<nextTask, errPending, failures>>

\* the worker of w has not acted on its task yet: a deadline that elapses
\* now is early, and counts as a failure of its own
ResponseComing(w) == inbox[w] # NoTask

\* the deadline of task t on worker w elapses
Timeout(w, t) ==
  /\ <<w, t>> \in timers
  /\ ResponseComing(w) => failures < MaxFailures
  /\ failures' = IF ResponseComing(w) THEN failures + 1 ELSE failures
  /\ Commit(onTimeout([Cur(<<w, "timeout">>)
                         EXCEPT !.timers = @ \ {<<w, t>>}], w, t))
  /\ UNCHANGED <<nextTask, errPending, closeWait>>

\* close() is called
Close ==
  /\ LET s == close(Cur(<<0, "close">>))
     IN /\ Commit(s)
        /\ closeWait' = closeWait \cup
                          {{w \in Range(s.workers) : thread[w] # "exited"}}
  /\ UNCHANGED <<nextTask, errPending, failures>>

\* a step of a worker thread or the delivery of a pending event or timer
Progress ==
  \/ \E w \in Units, k \in FailType : WorkerRun(w, k)
  \/ \E w \in Units, status \in Status : OnMessage(w, status)
  \/ \E w \in Units : OnError(w)
  \/ \E w \in Units : OnExit(w)
  \/ \E w \in Units, t \in TaskIds : Timeout(w, t)

Next ==
  \/ Submit
  \/ Progress
  \/ Close

Spec == Init /\ [][Next]_vars

\* The same pool with at most MaxLiveTasks submissions, where worker threads
\* run and the event loop keeps delivering what is pending; callers need not
\* submit or close.
LiveNext ==
  \/ nextTask <= MaxLiveTasks /\ Submit
  \/ Progress
  \/ Close

FairSpec == Init /\ [][LiveNext]_vars /\ WF_vars(Progress)

\* The pool of n workers after its first task threw an uncaught exception
\* (__TEST_UNCAUGHT_ERROR__) on worker 1 and the deadline of that task elapsed
\* before the "error" event of worker 1 was delivered: the deadline callback,
\* the error handler and the exit handler of worker 1 have run, in this
\* order.
afterLateError(n) ==
  LET s0 == constructor(n, TRUE)
      s1 == runTask([s0 EXCEPT !.by = <<0, "submit">>], 1)
      s2 == [s1 EXCEPT !.thread[1] = "stopped", !.exitCode[1] = 1,
                       !.inbox[1] = NoTask]
      s3 == onTimeout([s2 EXCEPT !.timers = @ \ {<<1, 1>>},
                                 !.by = <<1, "timeout">>], 1, 1)
      s4 == onError([s3 EXCEPT !.by = <<1, "error">>], 1)
      s5 == onExit([s4 EXCEPT !.by = <<1, "exit">>], 1, s4.exitCode[1])
  IN [s5 EXCEPT !.thread[1] = "exited"]

SurplusInit ==
  \E n \in 1..MaxThreads :
    LET s == afterLateError(n)
    IN /\ numThreads = s.numThreads
       /\ taskTimeoutMs = s.taskTimeoutMs
       /\ workers = s.workers
       /\ idleWorkers = s.idleWorkers
       /\ taskQueue = s.taskQueue
       /\ workerTaskMap = s.workerTaskMap
       /\ isClosing = s.isClosing
       /\ timedOutWorkers = s.timedOutWorkers
       /\ erroredWorkers = s.erroredWorkers
       /\ timers = s.timers
       /\ nextTask = 2
       /\ nextUnit = s.nextUnit
       /\ thread = s.thread
       /\ exitCode = s.exitCode
       /\ inbox = s.inbox
       /\ errPending = {}
       /\ failures = 0
       /\ closeWait = {}
       /\ results = s.results
       /\ sent = s.sent
       /\ spawnedBy = s.spawnedBy

\* The same pool from the state the late error event leaves it in, with
\* MaxFailures further failures.
SurplusSpec == SurplusInit /\ [][Next]_vars

\* The thread of worker w ends on its own with exit code 0, without
\* answering the task posted to it (if any).  WORKER_CODE never ends this
\* way; the step supplies the code === 0 input of the "exit" listener.
ExitsNormally(w) ==
  /\ thread[w] = "running"
  /\ failures < MaxFailures
  /\ failures' = failures + 1
  /\ thread' = [thread EXCEPT ![w] = "stopped"]
  /\ exitCode' = [exitCode EXCEPT ![w] = 0]
  /\ inbox' = [inbox EXCEPT ![w] = NoTask]
  /\ UNCHANGED <<numThreads, taskTimeoutMs, workers, idleWorkers, taskQueue,
                 workerTaskMap, isClosing, timedOutWorkers, erroredWorkers,
                 timers, nextTask, nextUnit, errPending, closeWait,
                 results, sent, spawnedBy>>

ExitZeroNext ==
  \/ Next
  \/ \E w \in Units : ExitsNormally(w)

\* The pool whose "exit" listener may be called with code 0.
ExitZeroSpec == Init /\ [][ExitZeroNext]_vars

\* a close() call has returned: every terminate() it awaited has resolved
closeReturned == {} \in closeWait

TypeOK ==
  /\ numThreads \in 1..MaxThreads
  /\ Range(workers) \subseteq Units
  /\ Range(idleWorkers) \subseteq Units
  /\ Range(taskQueue) \subseteq TaskIds
  /\ nextUnit \in 1..(MaxUnits + 1)
  /\ nextTask \in 1..(MaxTasks + 1)

\* ================================================================ claims
Settled(t)   == results[t] # <<>>
Failure      == {"fault", "exit", "timeout", "closing", "closing-submit"}
PoolClosing  == {"closing", "closing-submit"}
Assigned     == {w \in Units : workerTaskMap[w] # NoTask}
Busy         == Range(workers) \ Range(idleWorkers)
NoFailure    == \A t \in TaskIds : Range(results[t]) \cap Failure = {}
Increasing(q) == \A i, j \in 1..Len(q) : i < j => q[i] < q[j]
SpawnsOf(w, handlers) == {r \in spawnedBy : r[1] = w /\ r[2] \in handlers}

\* the step is the handler of the "exit" event of w
ExitStep(w) == thread[w] = "stopped" /\ thread'[w] = "exited"
\* the step is the handler of the "error" event of w
ErrorStep(w) == w \in errPending /\ w \notin errPending'
\* the step is the deadline callback of w that found w still assigned
TimeoutStep(w) == w \notin timedOutWorkers /\ w \in timedOutWorkers'
\* the step is a call of runTask
SubmitStep == nextTask' = nextTask + 1
\* the step is a call of close()
CloseStep == ~isClosing /\ isClosing'

\* C1: the result handle of every task is invoked at most once, whatever
\* message, error, exit, deadline and close() events arrive and in which order.
C1_SettledAtMostOnce == \A t \in TaskIds : Len(results[t]) <= 1

\* C1 witness: a task was rejected by the fault of its worker, the exit
\* event of that worker was handled afterwards, and close() ran after that.
C1_Witness ==
  /\ isClosing
  /\ \E t \in TaskIds : results[t] = <<"fault">>
  /\ \E w \in Units : thread[w] = "exited" /\ SpawnsOf(w, {"error"}) # {}

\* C2: with a task timeout configured, every task accepted by runTask is
\* eventually settled.
C2_EventuallySettled ==
  taskTimeoutMs ~> (\A t \in TaskIds : nextTask > t => Settled(t))

\* C2 witness: a task whose worker never answered was settled by its deadline
\* while another task was waiting in the queue behind it.
C2_Witness ==
  /\ taskTimeoutMs
  /\ \E t \in TaskIds : results[t] = <<"timeout">>
  /\ \E w \in Units : SpawnsOf(w, {"timeout"}) # {} /\ thread[w] = "exited"
                      /\ inbox[w] = NoTask
  /\ \A t \in TaskIds : t < nextTask => Settled(t)
  /\ nextTask > 2

\* C3: the registry never holds more than numThreads workers, and
\* 0 <= idle <= workers.
C3_WithinCapacity ==
  /\ Len(workers) <= numThreads
  /\ 0 <= Len(idleWorkers)
  /\ Len(idleWorkers) <= Len(workers)

\* C4 as claimed: in every state the busy units are the units with an entry
\* in workerTaskMap, an idle unit has no entry, and idle + busy = workers.
C4_RegistryConsistentAlways ==
  /\ Busy = Assigned
  /\ \A w \in Range(idleWorkers) : workerTaskMap[w] = NoTask
  /\ Len(idleWorkers) + Cardinality(Assigned) = Len(workers)

\* C4 amended: while the pool is not closing, the busy units of the registry
\* are the registry units with an entry in workerTaskMap, an idle unit has no
\* entry, and idle + busy = workers.
C4_RegistryConsistent ==
  ~isClosing =>
    /\ Busy = Assigned \cap Range(workers)
    /\ \A w \in Range(idleWorkers) : workerTaskMap[w] = NoTask
    /\ Len(idleWorkers) + Cardinality(Assigned \cap Range(workers))
         = Len(workers)

\* C4 witness: an open pool with a busy unit, an idle unit and a response
\* already handled.
C4_Witness ==
  /\ ~isClosing
  /\ Busy # {}
  /\ idleWorkers # <<>>
  /\ \E t \in TaskIds : results[t] = <<"ok">>

C6_TimeoutExitAttributed ==
  [][\A w \in Units :
       /\ TimeoutStep(w) =>
            /\ nextUnit' = nextUnit + 1
            /\ w \notin Range(workers')
       /\ (ExitStep(w) /\ w \in timedOutWorkers) =>
            /\ nextUnit' = nextUnit
            /\ results' = results
            /\ w \notin timedOutWorkers'
            /\ w \notin Range(workers')]_vars

\* C6 witness: a unit timed out, was terminated, and its exit was handled.
C6_Witness ==
  /\ ~isClosing
  /\ \E t \in TaskIds : results[t] = <<"timeout">>
  /\ \E w \in Units : /\ thread[w] = "exited"
                      /\ Cardinality(SpawnsOf(w, {"timeout"})) = 1
                      /\ SpawnsOf(w, {"exit", "error"}) = {}

\* C7: tasks are sent to workers in submission order, and with numThreads = 1
\* and no failure a task is completed before every task submitted after it.
C7_Fifo ==
  [][/\ Increasing(sent')
     /\ \A t \in TaskIds :
          (numThreads = 1 /\ NoFailure' /\ ~Settled(t) /\ Settled(t)')
            => \A u \in TaskIds : u > t => ~Settled(u)]_vars

\* C7 witness: one worker, three tasks, two of them queued at once, all three
\* sent and completed by a response.
C7_Witness ==
  /\ numThreads = 1
  /\ sent = <<1, 2, 3>>
  /\ NoFailure
  /\ \A t \in 1..3 : Settled(t)
  /\ failures = 0

\* C8: runTask called after close() rejects with the pool-closing error and
\* leaves queue, workers, idle, assignments, timers and worker inboxes alone.
C8_RejectAfterClose ==
  [][(SubmitStep /\ isClosing) =>
       /\ results'[nextTask] = <<"closing-submit">>
       /\ UNCHANGED <<taskQueue, workers, idleWorkers, workerTaskMap, inbox,
                      timers, sent, nextUnit>>]_vars

\* C8 witness: a submission made after close() has been rejected.
C8_Witness ==
  /\ isClosing
  /\ \E t \in TaskIds : results[t] = <<"closing-submit">>

\* C9: close() rejects every queued task and every assigned task with the
\* pool-closing error, cancels the timers of the busy units and leaves the
\* queue and workerTaskMap empty.
C9_CloseDrains ==
  [][CloseStep =>
       /\ \A t \in Range(taskQueue) \cup {workerTaskMap[w] : w \in Assigned} :
            results'[t] = Append(results[t], "closing")
       /\ \A w \in Assigned, t \in TaskIds : <<w, t>> \notin timers'
       /\ taskQueue' = <<>>
       /\ \A w \in Units : workerTaskMap'[w] = NoTask]_vars

\* C9 witness: close() rejected a task that was assigned, with its deadline
\* timer pending, and a task that was queued.
C9_Witness ==
  /\ isClosing
  /\ taskTimeoutMs
  /\ \E t1, t2 \in TaskIds :
       /\ results[t1] = <<"closing">> /\ t1 \in Range(sent)
       /\ results[t2] = <<"closing">> /\ t2 \notin Range(sent)

\* C10: once a close() call has returned, stats() is {0, 0, 0} and stays so.
C10_StatsZeroAfterClose ==
  closeReturned =>
    stats = [workers |-> 0, idle |-> 0, queue |-> 0]

\* C10 witness: close() has returned on a pool that had spawnedBy a timed-out
\* worker, rejected a later submission, and every worker thread has exited.
C10_Witness ==
  /\ closeReturned
  /\ \E w \in Units : SpawnsOf(w, {"timeout"}) # {}
  /\ \E t \in TaskIds : results[t] = <<"closing-submit">>
  /\ \A w \in Units : thread[w] \in {"unborn", "exited"}

\* the unit the next createWorker() call returns
NewUnit == nextUnit

\* the step removed w from the registry and inserted the new unit u: u is
\* running, and either idle or assigned the task at the head of the queue
InsertedAsIdle(w, u) ==
  /\ nextUnit' = u + 1
  /\ workers' = Append(Without(workers, w), u)
  /\ thread'[u] = "running"
  /\ IF taskQueue = <<>>
     THEN idleWorkers' = Append(Without(idleWorkers, w), u)
          /\ workerTaskMap'[u] = NoTask
     ELSE workerTaskMap'[u] = Head(taskQueue) /\ inbox'[u] = Head(taskQueue)

\* C11: when the deadline of a task elapses while its unit is still assigned
\* to it, the task is rejected with the timeout error, the unit is terminated
\* and removed from the registry, and a fresh unit is inserted as idle, so
\* that the worker count is numThreads again.
C11_TimeoutReplaces ==
  [][\A w \in Units :
       TimeoutStep(w) =>
         LET t == workerTaskMap[w]
         IN /\ t # NoTask
            /\ results' = [results EXCEPT ![t] = Append(@, "timeout")]
            /\ thread'[w] \in {"stopped", "exited"}
            /\ w \notin Range(workers') \cup Range(idleWorkers')
            /\ workerTaskMap'[w] = NoTask
            /\ InsertedAsIdle(w, NewUnit)
            /\ stats'.workers = numThreads]_vars

\* the exit event of w carries a non-zero code and is attributed neither to
\* a timeout nor to a fault
UnattributedExit(w) ==
  /\ ExitStep(w)
  /\ exitCode[w] # 0
  /\ w \notin timedOutWorkers
  /\ w \notin erroredWorkers

\* C12: when a unit exits with a non-zero code that is attributed neither to
\* a timeout nor to a fault and the pool is not closing, its assigned task (if
\* any) is rejected with the exit failure, the unit is removed from the
\* registry and exactly one replacement is spawned, so that the worker count
\* is numThreads again.
C12_AbnormalExitReplaces ==
  [][\A w \in Units :
       (UnattributedExit(w) /\ ~isClosing) =>
         /\ results' = IF workerTaskMap[w] = NoTask THEN results
                       ELSE [results EXCEPT ![workerTaskMap[w]] =
                                              Append(@, "exit")]
         /\ workerTaskMap'[w] = NoTask
         /\ \A t \in TaskIds : <<w, t>> \notin timers'
         /\ w \notin Range(workers') \cup Range(idleWorkers')
         /\ InsertedAsIdle(w, NewUnit)
         /\ stats'.workers = numThreads]_vars

\* units whose error handler has spawned a replacement
Replaced == {w \in Units : SpawnsOf(w, {"error"}) # {}}

\* C13: when a unit raises an error event while a task is assigned to it and
\* the pool is not closing, the task is rejected with the fault, the unit is
\* removed and a fresh unit is inserted as idle; the faulted unit is never in
\* the registry, assigned or sent a task again.
C13_FaultReplaces ==
  /\ [](\A w \in Replaced :
          /\ w \notin Range(workers) \cup Range(idleWorkers)
          /\ workerTaskMap[w] = NoTask
          /\ inbox[w] = NoTask)
  /\ [][\A w \in Units :
          (ErrorStep(w) /\ workerTaskMap[w] # NoTask /\ ~isClosing) =>
            /\ results' = [results EXCEPT ![workerTaskMap[w]] =
                                            Append(@, "fault")]
            /\ workerTaskMap'[w] = NoTask
            /\ \A t \in TaskIds : <<w, t>> \notin timers'
            /\ w \in erroredWorkers'
            /\ w \in Range(workers)
            /\ w \notin Range(workers') \cup Range(idleWorkers')
            /\ InsertedAsIdle(w, NewUnit)
            /\ NewUnit # w]_vars

\* C13 witness: on a pool of one worker the first task was rejected by the
\* fault of its worker and a later task was completed by the replacement.
C13_Witness ==
  /\ numThreads = 1
  /\ ~isClosing
  /\ results[1] = <<"fault">>
  /\ results[2] = <<"ok">>
  /\ 1 \in Replaced
  /\ thread[1] = "exited"
  /\ workers = <<2>>

\* the step is the message handler of w for a {status: 'error'} response
ErrorResponseStep(w) ==
  /\ workerTaskMap[w] # NoTask
  /\ results'[workerTaskMap[w]] = Append(results[workerTaskMap[w]], "error")

\* the step handles a failure event of w
FailureStep(w) ==
  ErrorStep(w) \/ ExitStep(w) \/ TimeoutStep(w) \/ ErrorResponseStep(w)

\* C14: the handling of a failure event of unit w (error, exit, deadline or
\* error response) settles no task but the one assigned to w; every other
\* unit keeps its place in the registry, its assignment, its posted task and
\* its deadline timer, and every queued task is still queued or has been
\* dispatched.
C14_FailureFrame ==
  [][\A w \in Units :
       FailureStep(w) =>
         /\ \A t \in TaskIds :
              t # workerTaskMap[w] => results'[t] = results[t]
         /\ \A u \in Units \ {w} :
              /\ u \in Range(workers) => u \in Range(workers')
              /\ thread'[u] = thread[u] \/ thread[u] = "unborn"
              /\ workerTaskMap[u] # NoTask =>
                   /\ workerTaskMap'[u] = workerTaskMap[u]
                   /\ inbox'[u] = inbox[u]
              /\ u \in Range(idleWorkers) =>
                   u \in Range(idleWorkers') \/ workerTaskMap'[u] # NoTask
         /\ \A tm \in timers : tm[1] # w => tm \in timers'
         /\ \A t \in Range(taskQueue) :
              \/ t \in Range(taskQueue')
              \/ \E u \in Units : workerTaskMap'[u] = t /\ inbox'[u] = t]_vars

\* C14 witness: on a pool of two workers the first task failed with its
\* worker, which was replaced, while the second worker kept running and the
\* two later tasks were completed.
C14_Witness ==
  /\ numThreads = 2
  /\ ~isClosing
  /\ results[1] \in {<<"fault">>, <<"exit">>, <<"timeout">>}
  /\ results[2] = <<"ok">>
  /\ results[3] = <<"ok">>
  /\ thread[1] = "exited"
  /\ thread[2] = "running"
  /\ 2 \in Range(idleWorkers)
  /\ Len(workers) = 2

\* the step pushed w to idleWorkers and then ran dispatch
ReturnedToIdle(w) ==
  LET idle == Append(idleWorkers, w)
  IN IF taskQueue = <<>>
     THEN /\ idleWorkers' = idle
          /\ workerTaskMap'[w] = NoTask
          /\ inbox'[w] = NoTask
          /\ UNCHANGED <<taskQueue, sent>>
     ELSE /\ idleWorkers' = Tail(idle)
          /\ taskQueue' = Tail(taskQueue)
          /\ sent' = Append(sent, Head(taskQueue))
          /\ workerTaskMap'[Head(idle)] = Head(taskQueue)
          /\ inbox'[Head(idle)] = Head(taskQueue)
          /\ Head(idle) # w => workerTaskMap'[w] = NoTask

\* C15: when a worker answers with status "error", its task is rejected
\* with that error, the unit is neither terminated nor replaced, the set of
\* workers is unchanged, the unit is pushed to idle and dispatch is run.
C15_ErrorResponseKeepsWorker ==
  [][\A w \in Units :
       ErrorResponseStep(w) =>
         /\ results' = [results EXCEPT ![workerTaskMap[w]] =
                                         Append(@, "error")]
         /\ <<w, workerTaskMap[w]>> \notin timers'
         /\ UNCHANGED <<workers, thread, exitCode, nextUnit, spawnedBy,
                        timedOutWorkers, erroredWorkers, isClosing>>
         /\ ReturnedToIdle(w)]_vars

\* C15 witness: the only worker of a pool answered its first task with an
\* error response and, without being replaced, completed the second task.
C15_Witness ==
  /\ numThreads = 1
  /\ ~isClosing
  /\ results[1] = <<"error">>
  /\ results[2] = <<"ok">>
  /\ workers = <<1>>
  /\ thread[1] = "running"
  /\ nextUnit = 2

\* C16: between handlers, while the pool is not closing, a task waits in the
\* queue only if no unit is idle.
C16_NoWaitingBesideIdle ==
  (~isClosing /\ taskQueue # <<>>) => idleWorkers = <<>>

\* C16 witness: a task waits in the queue of an open pool whose workers are
\* all busy, after a unit that became idle took the task queued before it.
C16_Witness ==
  /\ ~isClosing
  /\ taskQueue # <<>>
  /\ idleWorkers = <<>>
  /\ \E t \in TaskIds : results[t] = <<"ok">>
  /\ Len(sent) > numThreads

\* C17: after finitely many crashes and faults of workers of a pool that is
\* not closed, the worker count is eventually numThreads and stays there.
C17_ConvergesToCapacity ==
  <>[](isClosing \/ Len(workers) = numThreads)

\* the constructor has returned and nothing has been called since
JustConstructed == nextTask = 1 /\ ~isClosing

\* C18: right after new AsyncJson(N, ...) returns there are exactly N workers,
\* all idle and running, no assignment, and the queue is empty:
\* stats() = {workers: N, idle: N, queue: 0}.
C18_ConstructorSpawnsAll ==
  JustConstructed =>
    /\ stats = [workers |-> numThreads, idle |-> numThreads, queue |-> 0]
    /\ workers = [i \in 1..numThreads |-> i]
    /\ idleWorkers = workers
    /\ nextUnit = numThreads + 1
    /\ \A w \in Units : /\ workerTaskMap[w] = NoTask
                        /\ thread[w] = IF w <= numThreads THEN "running"
                                       ELSE "unborn"

\* C18 witness: a pool just constructed with the largest capacity.
C18_Witness ==
  /\ JustConstructed
  /\ numThreads = MaxThreads
  /\ stats.workers = MaxThreads
  /\ stats.idle = MaxThreads
  /\ spawnedBy = {<<0, "init">>}

\* the step is the message handler of w settling the task assigned to w
MessageStep(w) ==
  /\ workerTaskMap[w] # NoTask
  /\ \E status \in Status :
       results'[workerTaskMap[w]] = Append(results[workerTaskMap[w]], status)

\* every task submitted so far was settled once, by a response of its worker
AllCompleted ==
  /\ nextTask > 1
  /\ \A t \in TaskIds : t < nextTask => \E status \in Status :
                                           results[t] = <<status>>

\* C19: when the response of a worker completes its task, the deadline timer
\* of the task is cancelled, the assignment is cleared, the unit is pushed
\* to idle and dispatch runs; and once every submitted task has been
\* completed by a response, every worker is idle.
C19_MessageCompletion ==
  /\ [](AllCompleted =>
          /\ Len(idleWorkers) = Len(workers)
          /\ Range(idleWorkers) = Range(workers)
          /\ Assigned = {})
  /\ [][\A w \in Units :
          MessageStep(w) =>
            /\ <<w, workerTaskMap[w]>> \notin timers'
            /\ \A tm \in timers :
                 tm # <<w, workerTaskMap[w]>> => tm \in timers'
            /\ \A t \in TaskIds :
                 t # workerTaskMap[w] => results'[t] = results[t]
            /\ workers' = workers
            /\ ReturnedToIdle(w)]_vars

\* C19 witness: with a task timeout configured all three tasks were completed
\* by responses, no timer is pending and both workers are idle again.
C19_Witness ==
  /\ taskTimeoutMs
  /\ numThreads = 2
  /\ nextTask = 4
  /\ AllCompleted
  /\ timers = {}
  /\ Len(idleWorkers) = 2
  /\ failures = 0

\* the step settled task t with the outcome a worker answered
SettledByResponse(t) ==
  /\ Len(results'[t]) = Len(results[t]) + 1
  /\ results'[t][Len(results'[t])] \in Status

\* C20: a task is settled with the outcome of a response only by the response
\* of the unit it was most recently sent to, that response settles no other
\* task, and a busy unit is assigned the task that was posted to it.
C20_OwnOutcome ==
  /\ [](\A w \in Units :
          (inbox[w] # NoTask /\ workerTaskMap[w] # NoTask)
            => workerTaskMap[w] = inbox[w])
  /\ [][\A t \in TaskIds :
          SettledByResponse(t) =>
            /\ \E w \in Units : /\ inbox[w] = t
                                /\ inbox'[w] # t
                                /\ workerTaskMap[w] = t
                                /\ workerTaskMap'[w] # t
            /\ \A u \in TaskIds \ {t} : results'[u] = results[u]]_vars

\* C20 witness: a pool of two workers was sent three tasks and each of them
\* was settled by a response, one of them by an error response.
C20_Witness ==
  /\ numThreads = 2
  /\ sent = <<1, 2, 3>>
  /\ results[1] = <<"ok">>
  /\ results[2] = <<"error">>
  /\ results[3] = <<"ok">>
  /\ Len(idleWorkers) = 2

\* the step called createWorker()
SpawnStep == nextUnit' = nextUnit + 1

\* C21: when a handler inserts a replacement unit while tasks wait in the
\* queue, the task at the head of the queue is sent to the replacement in the
\* same step, with its deadline timer, and the tasks behind it keep their
\* order.
C21_ReplacementTakesQueueHead ==
  [][(SpawnStep /\ taskQueue # <<>>) =>
       LET u == NewUnit
           t == Head(taskQueue)
       IN /\ workerTaskMap'[u] = t
          /\ inbox'[u] = t
          /\ sent' = Append(sent, t)
          /\ taskQueue' = Tail(taskQueue)
          /\ u \in Range(workers')
          /\ u \notin Range(idleWorkers')
          /\ taskTimeoutMs => <<u, t>> \in timers']_vars

\* C21 witness: on a pool of one worker the first task failed with its
\* worker, and the replacement was sent the second and the third task in
\* this order and completed both.
C21_Witness ==
  /\ numThreads = 1
  /\ ~isClosing
  /\ results[1] \in {<<"timeout">>, <<"fault">>, <<"exit">>}
  /\ sent = <<1, 2, 3>>
  /\ results[2] = <<"ok">>
  /\ results[3] = <<"ok">>
  /\ workers = <<2>>
  /\ idleWorkers = <<2>>

\* the units whose exit a close() call made now would await
AwaitedNow == {w \in Range(workers) : thread[w] # "exited"}

\* C22: in every state after close() was called, a further close() call
\* changes nothing (it settles no task, spawns and terminates no worker and
\* leaves isClosing true), and it awaits only exits that an earlier call
\* awaits too, so it returns no later than that call.
C22_CloseIdempotent ==
  isClosing =>
    /\ close(Cur(<<0, "close">>)) = Cur(<<0, "close">>)
    /\ \E W \in closeWait : AwaitedNow \subseteq W
    /\ \A w \in AwaitedNow : thread[w] = "stopped"

\* C22 witness: close() was called with a task in flight and a task queued,
\* and the exit of a worker it terminated is still awaited.
C22_Witness ==
  /\ isClosing
  /\ AwaitedNow # {}
  /\ ~closeReturned
  /\ \E t1, t2 \in TaskIds : /\ t1 # t2
                             /\ results[t1] = <<"closing">>
                             /\ results[t2] = <<"closing">>
  /\ \E w \in Range(workers) : thread[w] = "stopped"

\* the worker of w took its task and will never answer it (__TEST_HANG__)
Hung(w) ==
  /\ thread[w] = "running"
  /\ workerTaskMap[w] # NoTask
  /\ inbox[w] = NoTask

\* C23: with taskTimeoutMs undefined no deadline timer exists, no unit is
\* marked timed out and no task is rejected with the timeout error; a unit
\* whose worker never answers stays busy with its task, unsettled, in every
\* step that leaves the pool open.
C23_NoTimeoutConfigured ==
  /\ [](~taskTimeoutMs =>
          /\ timers = {}
          /\ timedOutWorkers = {}
          /\ \A t \in TaskIds : "timeout" \notin Range(results[t]))
  /\ [][\A w \in Units :
          (~taskTimeoutMs /\ Hung(w) /\ ~isClosing') =>
            /\ Hung(w)'
            /\ workerTaskMap'[w] = workerTaskMap[w]
            /\ results'[workerTaskMap[w]] = <<>>
            /\ w \in Range(workers') \ Range(idleWorkers')]_vars

\* C23 witness: without a task timeout the only worker hangs on the first
\* task while the two later tasks wait in the queue.
C23_Witness ==
  /\ ~taskTimeoutMs
  /\ ~isClosing
  /\ numThreads = 1
  /\ Hung(1)
  /\ taskQueue = <<2, 3>>
  /\ \A t \in TaskIds : results[t] = <<>>

\* the pool state with q in place of the task queue
WithQueue(q) == [Cur(<<0, "dispatch">>) EXCEPT !.taskQueue = q]

\* C24: once isClosing is set a call of dispatch changes nothing, whatever
\* the queue and the idle list hold; and in the step of close() and in every
\* later step nothing is sent to a worker and no assignment and no deadline
\* timer is created.
C24_NoDispatchWhenClosing ==
  /\ [](isClosing =>
          \A t \in TaskIds : dispatch(WithQueue(<<t>>)) = WithQueue(<<t>>))
  /\ [][isClosing' =>
          /\ sent' = sent
          /\ timers' \subseteq timers
          /\ \A w \in Units :
               /\ inbox'[w] \in {inbox[w], NoTask}
               /\ workerTaskMap'[w] \in {workerTaskMap[w], NoTask}]_vars

\* C24 witness: after close() a worker that was idle is still in idleWorkers,
\* a submission has been rejected, and nothing was sent.
C24_Witness ==
  /\ isClosing
  /\ idleWorkers # <<>>
  /\ \E t \in TaskIds : results[t] = <<"closing-submit">>
  /\ \A w \in Units : workerTaskMap[w] = NoTask /\ inbox[w] = NoTask

\* C25: once isClosing is set no unit is spawned; the error, exit and
\* deadline handlers that run then remove their unit from the registry,
\* insert nothing and settle no task.
C25_NoSpawnWhenClosing ==
  [][isClosing' =>
       /\ nextUnit' = nextUnit
       /\ spawnedBy' = spawnedBy
       /\ Range(workers') \subseteq Range(workers)
       /\ Range(idleWorkers') \subseteq Range(idleWorkers)
       /\ \A w \in Units :
            (ErrorStep(w) \/ ExitStep(w) \/ TimeoutStep(w)) =>
              /\ results' = results
              /\ w \notin Range(workers') \cup Range(idleWorkers')]_vars

\* C25 witness: the only worker failed on its task, close() rejected the task
\* before an event of the worker arrived, and the handlers that ran
\* afterwards removed the worker without a replacement.
C25_Witness ==
  /\ isClosing
  /\ numThreads = 1
  /\ results[1] = <<"closing">>
  /\ thread[1] = "exited"
  /\ failures = 1
  /\ workers = <<>>
  /\ nextUnit = 2
  /\ spawnedBy = {<<0, "init">>}

SendStep(w) == inbox'[w] # NoTask /\ inbox'[w] # inbox[w]

\* C27: no task is sent twice and no two units hold the same task; a step
\* sends at most one task, to one unit; a unit is sent a task only when it
\* is idle in the handler (it was idle before, was just created, or its
\* previous task was settled by the same handler), and the send makes it busy
\* with that task.
C27_OneSendPerTask ==
  /\ [](/\ \A i, j \in 1..Len(sent) : i # j => sent[i] # sent[j]
        /\ \A w, u \in Assigned : w # u => workerTaskMap[w] # workerTaskMap[u]
        /\ \A w \in Assigned : w \notin Range(idleWorkers))
  /\ [][/\ sent' = sent \/ \E t \in TaskIds : sent' = Append(sent, t)
        /\ Cardinality({w \in Units : SendStep(w)}) = Len(sent') - Len(sent)
        /\ \A w \in Units :
             SendStep(w) =>
               /\ sent' = Append(sent, inbox'[w])
               /\ \/ w \in Range(idleWorkers) /\ workerTaskMap[w] = NoTask
                  \/ w = NewUnit
                  \/ /\ workerTaskMap[w] # NoTask
                     /\ SettledByResponse(workerTaskMap[w])
               /\ workerTaskMap'[w] = inbox'[w]
               /\ w \in Range(workers') \ Range(idleWorkers')
               /\ thread'[w] = "running"]_vars

\* C27 witness: both workers of a pool are busy with different tasks, one of
\* them with its second task.
C27_Witness ==
  /\ numThreads = 2
  /\ ~isClosing
  /\ sent = <<1, 2, 3>>
  /\ Cardinality(Assigned) = 2
  /\ idleWorkers = <<>>
  /\ nextUnit = 3
  /\ \E t \in TaskIds : results[t] = <<"ok">>

\* C28: the error handler of a unit that has no assignment, on a pool that
\* is not closing, settles no task, leaves the unit in neither list and
\* spawns one replacement, so that workers and idle have the same counts
\* after the handler as before it.
C28_FaultWithoutTask ==
  [][\A w \in Units :
       (ErrorStep(w) /\ workerTaskMap[w] = NoTask /\ ~isClosing) =>
         /\ results' = results
         /\ w \notin Range(workers') \cup Range(idleWorkers')
         /\ nextUnit' = nextUnit + 1
         /\ stats'.workers = stats.workers
         /\ stats'.idle = stats.idle]_vars

\* the unit was created and is no longer in the registry
Removed(w) == thread[w] # "unborn" /\ w \notin Range(workers)

\* C29: a unit that has been removed from the registry never enters workers
\* or idleWorkers again, is never assigned a task and is never sent one.
C29_NoReuse ==
  [][\A w \in Units :
       Removed(w) =>
         /\ Removed(w)'
         /\ w \notin Range(idleWorkers) \cup Range(idleWorkers')
         /\ workerTaskMap[w] = NoTask /\ workerTaskMap'[w] = NoTask
         /\ ~SendStep(w)
         /\ w \notin Range(sent') \ Range(sent)]_vars

\* C29 witness: a unit was removed by the deadline of its task and has
\* exited; the replacement completed a later task and is idle.
C29_Witness ==
  /\ ~isClosing
  /\ \E w \in Units :
       /\ Removed(w)
       /\ thread[w] = "exited"
       /\ SpawnsOf(w, {"timeout"}) # {}
  /\ \E t \in TaskIds : results[t] = <<"timeout">>
  /\ \E t \in TaskIds : results[t] = <<"ok">>
  /\ idleWorkers # <<>>

\* the step is a call of close() that awaits a set of exits not awaited yet
NewCloseStep == isClosing' /\ closeWait' # closeWait
                           /\ closeWait \subseteq closeWait'

\* C30: a close() call has settled every submitted task and terminated every
\* unit of the registry when it starts to wait, it waits for the exit event
\* of each of them, a unit is struck off only by its own exit handler, and
\* every close() call eventually returns.
C30_CloseCompletes ==
  /\ [][NewCloseStep =>
          /\ closeWait' = closeWait \cup {Range(workers)}
          /\ \A w \in Range(workers) : thread'[w] = "stopped"
          /\ \A t \in TaskIds : t < nextTask => Settled(t)']_vars
  /\ [][\A W \in closeWait : \A w \in W :
          IF ExitStep(w) THEN W \ {w} \in closeWait'
          ELSE thread'[w] # "exited"
               /\ \E W2 \in closeWait' : w \in W2 /\ W2 \subseteq W]_vars
  /\ [](closeReturned => \A t \in TaskIds : t < nextTask => Settled(t))
  /\ (isClosing ~> (closeWait = {{}}))

\* C30 witness: close() was called with a task in flight on one worker and
\* the other worker idle, both exits were delivered and the call returned.
C30_Witness ==
  /\ numThreads = 2
  /\ closeWait = {{}}
  /\ \E t \in TaskIds : results[t] = <<"closing">>
  /\ thread[1] = "exited"
  /\ thread[2] = "exited"
  /\ workers = <<>>

\* the handlers of the lifecycle events of a unit
Lifecycle == {"timeout", "error", "exit"}

\* C31: for every unit, the handlers of its deadline, error and exit events
\* together spawn at most one replacement over its whole lifetime.
C31_AtMostOneReplacement ==
  \A w \in Units : Cardinality(SpawnsOf(w, Lifecycle)) <= 1

\* C32: while the pool is not closing, between handlers the registry holds
\* exactly numThreads workers.
C32_ExactCapacity ==
  ~isClosing => stats.workers = numThreads

\* the step cleared or changed the assignment of w
AssignmentCleared(w) ==
  workerTaskMap[w] # NoTask /\ workerTaskMap'[w] # workerTaskMap[w]

\* C33: a deadline timer is pending for a unit only while the unit is
\* assigned the task the timer was started for, a unit has at most one
\* pending timer, and every step that clears the assignment of a unit leaves
\* no timer of that assignment pending.
C33_TimerOnlyWhileBusy ==
  /\ [](/\ \A tm \in timers : /\ workerTaskMap[tm[1]] = tm[2]
                              /\ tm[1] \in Range(workers) \ Range(idleWorkers)
        /\ \A tm1, tm2 \in timers : tm1[1] = tm2[1] => tm1 = tm2)
  /\ [][\A w \in Units :
          AssignmentCleared(w) =>
            /\ <<w, workerTaskMap[w]>> \notin timers'
            /\ \A tm \in timers' : tm[1] = w => tm[2] = workerTaskMap'[w]]_vars

\* C33 witness: with a task timeout configured a unit completed its first
\* task and is busy with a later one, and both busy units have one pending
\* timer each.
C33_Witness ==
  /\ taskTimeoutMs
  /\ ~isClosing
  /\ numThreads = 2
  /\ Cardinality(timers) = 2
  /\ Cardinality(Assigned) = 2
  /\ \E t \in TaskIds : results[t] = <<"ok">>
  /\ \E w \in Assigned : <<w, workerTaskMap[w]>> \in timers
                         /\ workerTaskMap[w] = 3

\* task t waits in the queue
Queued(t) == t \in Range(taskQueue)

\* C34: the deadline timer of a task is started in the step that sends the
\* task to a unit, not when the task is submitted: a queued task has no
\* timer, is unsettled and was never sent, and the only settlement a queued
\* task can receive is the pool-closing error of close().
C34_DeadlineStartsAtDispatch ==
  /\ [](\A t \in TaskIds :
          Queued(t) => /\ \A tm \in timers : tm[2] # t
                       /\ results[t] = <<>>
                       /\ t \notin Range(sent))
  /\ [][/\ \A tm \in timers' \ timers :
             /\ sent' = Append(sent, tm[2])
             /\ inbox'[tm[1]] = tm[2]
             /\ workerTaskMap'[tm[1]] = tm[2]
        /\ \A w \in Units :
             (SendStep(w) /\ taskTimeoutMs) => <<w, inbox'[w]>> \in timers'
        /\ (SubmitStep /\ Queued(nextTask)') => timers' = timers
        /\ \A t \in TaskIds :
             (Queued(t) /\ results'[t] # results[t]) =>
               /\ results'[t] = <<"closing">>
               /\ CloseStep]_vars

\* C34 witness: on a pool of one worker the deadline of the first task
\* elapsed while two tasks were queued; the first task alone was rejected
\* with the timeout error, the second runs on the replacement with its own
\* timer and the third still waits, unsettled.
C34_Witness ==
  /\ taskTimeoutMs
  /\ numThreads = 1
  /\ ~isClosing
  /\ results[1] = <<"timeout">>
  /\ taskQueue = <<3>>
  /\ results[3] = <<>>
  /\ timers = {<<2, 2>>}

\* the step delivers a response of w, which was terminated after posting it,
\* while w has no assignment
StaleMessageStep(w) ==
  /\ workerTaskMap[w] = NoTask
  /\ inbox[w] # NoTask /\ inbox'[w] = NoTask
  /\ thread[w] = "stopped" /\ thread'[w] = "stopped"

\* C35: the message handler of a unit that has no assignment changes nothing,
\* whatever the status of the message: it settles no task, leaves the idle
\* list and the registry alone and sends nothing; and so does every delivery
\* of a response whose assignment a deadline or close() has cleared.
C35_StaleMessageIgnored ==
  /\ [](\A w \in Units, status \in Status :
          (thread[w] # "unborn" /\ workerTaskMap[w] = NoTask) =>
            onMessage(Cur(<<w, "message">>), w, status)
              = Cur(<<w, "message">>))
  /\ [][\A w \in Units :
          StaleMessageStep(w) =>
            UNCHANGED <<results, idleWorkers, workers, taskQueue,
                        workerTaskMap, sent, timers, nextUnit, thread,
                        timedOutWorkers, erroredWorkers, isClosing,
                        spawnedBy>>]_vars

\* C35 witness: close() rejected the task of a worker that had not answered
\* yet, and the response the worker posted before it was terminated has been
\* delivered since: the task keeps its one settlement and the worker is not
\* idle.
C35_Witness ==
  /\ isClosing
  /\ failures = 0
  /\ numThreads = 1
  /\ sent = <<1>>
  /\ results[1] = <<"closing">>
  /\ thread[1] = "stopped"
  /\ inbox[1] = NoTask
  /\ idleWorkers = <<>>
  /\ workers = <<1>>

\* C36: in every state the idle list holds no unit twice, every idle unit is
\* in the workers list, and no idle unit has an entry in workerTaskMap.
C36_IdleListWellFormed ==
  /\ \A i, j \in 1..Len(idleWorkers) : i # j => idleWorkers[i] # idleWorkers[j]
  /\ Range(idleWorkers) \subseteq Range(workers)
  /\ Range(idleWorkers) \cap Assigned = {}

\* C36 witness: both units of an open pool are idle after a worker was
\* replaced and a task was completed, in an order that differs from the
\* order of the workers list.
C36_Witness ==
  /\ ~isClosing
  /\ numThreads = 2
  /\ Len(idleWorkers) = 2
  /\ Len(workers) = 2
  /\ idleWorkers # workers
  /\ nextUnit > 3
  /\ \E t \in TaskIds : results[t] = <<"ok">>

\* the exit event of w carries code 0 and is attributed neither to a timeout
\* nor to a fault
NormalExitStep(w) ==
  /\ ExitStep(w)
  /\ exitCode[w] = 0
  /\ w \notin timedOutWorkers
  /\ w \notin erroredWorkers

\* w exited with code 0 and still has its assignment
Orphaned(w) ==
  thread[w] = "exited" /\ exitCode[w] = 0 /\ workerTaskMap[w] # NoTask

\* C37: the handler of an exit event with code 0 that is attributed neither
\* to a timeout nor to a fault removes the unit from workers and idleWorkers
\* and does nothing else: it spawns nothing, settles nothing and keeps the
\* assignment of the unit and its timer; the assignment then stays, with its
\* task unsettled, in every step but the deadline callback of the unit and
\* close().
C37_NormalExitOnlyRemoves ==
  /\ [][\A w \in Units :
          NormalExitStep(w) =>
            /\ workers' = Without(workers, w)
            /\ idleWorkers' = Without(idleWorkers, w)
            /\ UNCHANGED <<nextUnit, spawnedBy, results, workerTaskMap,
                           timers, taskQueue, sent, isClosing>>]_vars
  /\ [][\A w \in Units :
          Orphaned(w) =>
            \/ /\ workerTaskMap'[w] = workerTaskMap[w]
               /\ results'[workerTaskMap[w]] = <<>>
               /\ w \notin Range(workers')
            \/ TimeoutStep(w)
            \/ CloseStep]_vars

\* C37 witness: a busy unit of an open pool exited with code 0: it is out of
\* the registry, no replacement was spawned, and its task is still assigned
\* to it and unsettled.
C37_Witness ==
  /\ ~isClosing
  /\ \E w \in Units :
       /\ Orphaned(w)
       /\ results[workerTaskMap[w]] = <<>>
       /\ w \notin Range(workers)
  /\ Len(workers) = numThreads - 1
  /\ nextUnit = numThreads + 1

\* the step is the deadline callback of w rejecting the task of its timer
DeadlineFired(w) ==
  \E t \in TaskIds :
    /\ <<w, t>> \in timers /\ <<w, t>> \notin timers'
    /\ workerTaskMap[w] = t
    /\ results'[t] = Append(results[t], "timeout")

\* C38: the exit handler of a unit clears its timed-out and errored flags;
\* the timed-out flag of a unit is set only by the deadline callback of that
\* unit and its errored flag only by its own error handler, one unit per
\* step; a flag is removed only by the exit handler of its unit; and a unit
\* that was not created yet carries no flag.
C38_AttributionPerUnit ==
  /\ [](\A w \in Units :
          thread[w] = "unborn" =>
            w \notin timedOutWorkers \cup erroredWorkers)
  /\ [][\A w \in Units :
          /\ ExitStep(w) =>
               w \notin timedOutWorkers' \cup erroredWorkers'
          /\ (w \in timedOutWorkers' \ timedOutWorkers) =>
               /\ DeadlineFired(w)
               /\ timedOutWorkers' = timedOutWorkers \cup {w}
               /\ erroredWorkers' = erroredWorkers
          /\ (w \in erroredWorkers' \ erroredWorkers) =>
               /\ ErrorStep(w)
               /\ erroredWorkers' = erroredWorkers \cup {w}
               /\ timedOutWorkers' = timedOutWorkers
          /\ (w \in (timedOutWorkers \ timedOutWorkers')
                      \cup (erroredWorkers \ erroredWorkers')) =>
               /\ ExitStep(w)
               /\ timedOutWorkers' = timedOutWorkers \ {w}
               /\ erroredWorkers' = erroredWorkers \ {w}]_vars

\* C38 witness: a unit was marked timed out by its deadline and errored by
\* its late error event, its exit was handled, and no flag is left while its
\* replacements run.
C38_Witness ==
  /\ ~isClosing
  /\ thread[1] = "exited"
  /\ SpawnsOf(1, {"timeout"}) # {}
  /\ SpawnsOf(1, {"error"}) # {}
  /\ timedOutWorkers = {}
  /\ erroredWorkers = {}
  /\ \E w \in Range(workers) : thread[w] = "running"

====
